---- MODULE Spec2Model ----
(***************************************************************************)
(* Model of react-native-maker (src/scaffolder-script.js): the class       *)
(* ReactNativeProjectScaffolder, its scaffold() pipeline, the filesystem   *)
(* under the root path it writes to, and the counter examples it emits.    *)
(*                                                                         *)
(* A path relative to the root is the tuple of its segments:               *)
(* 'src/utils/asyncStorage.ts' is <<"src", "utils", "asyncStorage.ts">>,   *)
(* and the root itself is << >>.                                           *)
(***************************************************************************)
EXTENDS Integers, Sequences, FiniteSets, TLC

\* Bounds of the model (not constants of the program).
MaxRuns == 2      \* invocations of the tool on the same root
MaxCalls == 14    \* increment/decrement calls on the generated counters
MaxRoutes == 3    \* routes in a navigation stack and in a list handed to reset

VARIABLES
    pc,         \* the statement of scaffold() that runs next
    i,          \* index of the forEach iteration inside the current method
    phase,      \* "mkdirp" or "write": the call the iteration makes next
    config,     \* this.config
    pending,    \* prompts issued to inquirer and not yet settled
    issued,     \* prompts issued in this run, in order
    answered,   \* prompts the operator has answered in this run
    dirs,       \* directories existing under the root (the root included)
    files,      \* files existing under the root: path -> content last written
    partial,    \* files whose last write was cut short
    out,        \* console lines of this run, in order
    error,      \* the error caught in this run, "none" if none
    promise,    \* state of the promise scaffold() returned
    run,        \* number of the current invocation
    fs0,        \* the filesystem when this invocation started
    prev,       \* how the previous invocation on this root ended
    slice,      \* state of the Redux Toolkit exampleSlice
    store,      \* state of the Zustand exampleStore
    ctxValue,   \* value of the Context API ExampleProvider
    incs,       \* increment() calls made so far on each counter
    decs,       \* decrement() calls made so far on each counter
    asyncStorage,   \* contents of the AsyncStorage behind StorageUtil
    mmkv,           \* contents of the MMKV instance behind MMKVStorageUtil
    call,           \* the last call of a generated storage helper
    navReady,       \* navigationRef.isReady()
    navState,       \* the navigation state behind navigationRef
    navCall,        \* the last call of a function of NavigationRef.ts
    at              \* calls each conditional generator has made when they run interleaved

scaffoldVars == <<pc, i, phase, config, pending, issued, answered, dirs, files,
          partial,
                  out, error, promise, run, fs0, prev>>
counterVars == <<slice, store, ctxValue, incs, decs>>
storageVars == <<asyncStorage, mmkv, call>>
navVars == <<navReady, navState, navCall>>
generatedVars == <<counterVars, storageVars, navVars>>
vars == <<pc, i, phase, config, pending, issued, answered, dirs, files,
          partial,
          out, error, promise, run, fs0, prev, slice, store, ctxValue, incs, decs,
          asyncStorage, mmkv, call, navReady, navState, navCall, at>>

----------------------------------------------------------------------------
(* Paths and the filesystem (fs-extra mkdirpSync, fs writeFileSync).       *)

Root == << >>
Parent(p) == SubSeq(p, 1, Len(p) - 1)
Prefixes(p) == {SubSeq(p, 1, k) : k \in 0..Len(p)}
Least(S) == CHOOSE k \in S : \A m \in S : k <= m

\* mkdirpSync(p): creates p and every missing ancestor. It stops at the first
\* component that exists as a file; the creation of any missing component may
\* be refused by the system, and the components before it stay created.
MkdirpOutcomes(d, f, p) ==
    LET blocked == {k \in 1..Len(p) : SubSeq(p, 1, k) \in DOMAIN f}
        limit == IF blocked = {} THEN Len(p) + 1 ELSE Least(blocked)
        missing == {k \in 1..Len(p) : SubSeq(p, 1, k) \notin d /\ k < limit}
    IN  (IF blocked = {}
         THEN {[dirs |-> d \cup Prefixes(p), error |-> "none"]}
         ELSE {[dirs |-> d \cup Prefixes(SubSeq(p, 1, limit - 1)),
                error |-> IF limit = Len(p) THEN "EEXIST" ELSE "ENOTDIR"]})
        \cup {[dirs |-> d \cup Prefixes(SubSeq(p, 1, k - 1)), error |-> "EACCES"] :
                 k \in missing}

\* WriteOutcomes with the file opened for exclusive creation (flag 'wx'): an
\* existing file is an error instead of being overwritten.
WriteOutcomesExclusive(d, f, part, p, c) ==
    IF Parent(p) \notin d
    THEN {[files |-> f, partial |-> part, error |-> "ENOENT"]}
    ELSE IF p \in d
    THEN {[files |-> f, partial |-> part, error |-> "EISDIR"]}
    ELSE IF p \in DOMAIN f
    THEN {[files |-> f, partial |-> part, error |-> "EEXIST"]}
    ELSE {[files |-> (p :> c) @@ f, partial |-> part \ {p}, error |-> "none"],
          [files |-> f, partial |-> part, error |-> "EACCES"],
          [files |-> (p :> c) @@ f, partial |-> part \cup {p}, error |-> "ENOSPC"]}

\* writeFileSync(p, c): creates or truncates p and writes c. It needs the
\* parent directory; the system may refuse to open the file, or run out of
\* space after it has truncated it.
WriteOutcomes(d, f, part, p, c) ==
    IF Parent(p) \notin d
    THEN {[files |-> f, partial |-> part, error |-> "ENOENT"]}
    ELSE IF p \in d
    THEN {[files |-> f, partial |-> part, error |-> "EISDIR"]}
    ELSE {[files |-> (p :> c) @@ f, partial |-> part \ {p}, error |-> "none"],
          [files |-> f, partial |-> part, error |-> "EACCES"],
          [files |-> (p :> c) @@ f, partial |-> part \cup {p}, error |-> "ENOSPC"]}

----------------------------------------------------------------------------
(* The constants of the class.                                             *)

NoChoice == "null"
defaultThisConfig ==
    [bottomNavigation |-> FALSE, storageType |-> NoChoice,
     navigationSetup |-> FALSE, stateManagement |-> NoChoice]

\* The answers inquirer can resolve each prompt with.
ConfirmAnswers == BOOLEAN
storageChoices == {"Async Storage", "React Native MMKV", "None"}
stateManagementChoices == {"Redux Toolkit", "Zustand", "Context API", "None"}

\* The four prompts in the order scaffold() awaits them.
promptOrder == <<"bottomNav", "storageType", "navigationSetup", "stateManagement">>

\* JavaScript truthiness of a config value that is null or a string.
Truthy(v) == v # NoChoice /\ v # ""

baseDirectories == <<
    <<"src", "assets", "fonts">>,
    <<"src", "assets", "icons", "imageIcons">>,
    <<"src", "assets", "icons", "svgIcons">>,
    <<"src", "assets", "images", "PngAndJpgImages">>,
    <<"src", "assets", "images", "SvgImages">>,
    <<"src", "assets", "images", "OtherImages">>,
    <<"src", "components", "global">>,
    <<"src", "components", "forms">>,
    <<"src", "store">>,
    <<"src", "constants">>,
    <<"src", "hooks">>,
    <<"src", "context">>,
    <<"src", "features", "auth">>,
    <<"src", "features", "dashboard">>,
    <<"src", "features", "settings">>,
    <<"src", "features", "chat">>,
    <<"src", "i18n", "locales">>,
    <<"src", "service">>,
    <<"src", "styles">>,
    <<"src", "theme">>,
    <<"src", "types">>,
    <<"src", "utils">> >>

\* navigationPath under another name than the alias @navigation/* uses.
navigationPathNavigator == <<"src", "navigator">>
navigationPath == <<"src", "navigation">>

bottomNavDirectories == << <<"src", "assets", "icons", "BottomTabIcons">> >>

generateBottomTabContent == "// Bottom Tab Navigation Placeholder"
generateAsyncStorageContent == "class StorageUtil"
generateMMKVStorageContent == "class MMKVStorageUtil"
generateRootNavigatorContent == "// Root Navigator Placeholder"
generateNavigationRefContent == "navigationRef navigate goBack resetNavigationStack"
generateMediaHandlerContent == "// Media Handler Utility Placeholder"
generateResponsiveScreenContent == "// Responsive Screen Utility Placeholder"

\* bottomNavFiles with the navigator written to the path setupNavigation
\* writes its root navigator to.
bottomNavFilesOnRootNavigator ==
    << [path |-> <<"src", "navigation", "RootNavigator.tsx">>,
        content |-> generateBottomTabContent] >>

bottomNavFiles ==
    << [path |-> <<"src", "navigation", "BottomTabNavigator.tsx">>,
        content |-> generateBottomTabContent] >>

\* storageFiles with the two entries under each other's key.
storageFilesSwapped(type) ==
    IF type = "React Native MMKV"
    THEN << [path |-> <<"src", "utils", "asyncStorage.ts">>,
             content |-> "class StorageUtil"] >>
    ELSE IF type = "Async Storage"
    THEN << [path |-> <<"src", "utils", "mmkvStorage.ts">>,
             content |-> "class MMKVStorageUtil"] >>
    ELSE << >>

\* storageFiles[type] || []
storageFiles(type) ==
    IF type = "Async Storage"
    THEN << [path |-> <<"src", "utils", "asyncStorage.ts">>,
             content |-> generateAsyncStorageContent] >>
    ELSE IF type = "React Native MMKV"
    THEN << [path |-> <<"src", "utils", "mmkvStorage.ts">>,
             content |-> generateMMKVStorageContent] >>
    ELSE << >>

navigationFiles ==
    << [path |-> <<"src", "navigation", "RootNavigator.tsx">>,
        content |-> generateRootNavigatorContent],
       [path |-> <<"src", "navigation", "NavigationRef.ts">>,
        content |-> generateNavigationRefContent] >>

\* stateManagementFiles with the Redux Toolkit entry lacking the example slice.
stateManagementFilesNoSlice(choice) ==
    IF choice = "Redux Toolkit"
    THEN << [path |-> <<"src", "store", "index.ts">>,
             content |-> "configureStore"] >>
    ELSE IF choice = "Zustand"
    THEN << [path |-> <<"src", "store", "zustand", "exampleStore.ts">>,
             content |-> "create ExampleState"] >>
    ELSE IF choice = "Context API"
    THEN << [path |-> <<"src", "context", "providers", "ExampleProvider.tsx">>,
             content |-> "ExampleProvider useExampleContext"] >>
    ELSE << >>

\* stateManagementFiles[choice] || []
stateManagementFiles(choice) ==
    IF choice = "Redux Toolkit"
    THEN << [path |-> <<"src", "store", "index.ts">>,
             content |-> "configureStore"],
            [path |-> <<"src", "store", "slices", "exampleSlice.ts">>,
             content |-> "createSlice example"] >>
    ELSE IF choice = "Zustand"
    THEN << [path |-> <<"src", "store", "zustand", "exampleStore.ts">>,
             content |-> "create ExampleState"] >>
    ELSE IF choice = "Context API"
    THEN << [path |-> <<"src", "context", "providers", "ExampleProvider.tsx">>,
             content |-> "ExampleProvider useExampleContext"] >>
    ELSE << >>

utilFiles ==
    << [path |-> <<"src", "utils", "MediaHandler.ts">>,
        content |-> generateMediaHandlerContent],
       [path |-> <<"src", "utils", "responsive-screen.ts">>,
        content |-> generateResponsiveScreenContent] >>

tsConfigPath == <<"tsconfig.json">>

\* tsConfigPaths without the "@types/*" entry.
tsConfigPathsWithoutTypes ==
    ("@assets/*" :> <<"assets/*">>) @@
    ("@features/*" :> <<"features/*">>) @@
    ("@navigation/*" :> <<"navigation/*">>) @@
    ("@components/*" :> <<"components/*">>) @@
    ("@state/*" :> <<"state/*">>) @@
    ("@store/*" :> <<"store/*">>) @@
    ("@service/*" :> <<"service/*">>) @@
    ("@styles/*" :> <<"styles/*">>) @@
    ("@utils/*" :> <<"utils/*">>) @@
    ("@i18n/*" :> <<"i18n/*">>) @@
    ("@theme/*" :> <<"theme/*">>) @@
    ("@constants/*" :> <<"constants/*">>) @@
    ("@context/*" :> <<"context/*">>) @@
    ("@hooks/*" :> <<"hooks/*">>)

tsConfigPaths ==
    ("@assets/*" :> <<"assets/*">>) @@
    ("@features/*" :> <<"features/*">>) @@
    ("@navigation/*" :> <<"navigation/*">>) @@
    ("@components/*" :> <<"components/*">>) @@
    ("@state/*" :> <<"state/*">>) @@
    ("@store/*" :> <<"store/*">>) @@
    ("@service/*" :> <<"service/*">>) @@
    ("@styles/*" :> <<"styles/*">>) @@
    ("@utils/*" :> <<"utils/*">>) @@
    ("@i18n/*" :> <<"i18n/*">>) @@
    ("@theme/*" :> <<"theme/*">>) @@
    ("@types/*" :> <<"types/*">>) @@
    ("@constants/*" :> <<"constants/*">>) @@
    ("@context/*" :> <<"context/*">>) @@
    ("@hooks/*" :> <<"hooks/*">>)

\* The x of an alias key "@x/*" and of a target pattern "x/*" of the paths
\* literal: the text between the "@", if any, and the "/*".
aliasName ==
    ("@assets/*" :> "assets") @@
    ("@features/*" :> "features") @@
    ("@navigation/*" :> "navigation") @@
    ("@components/*" :> "components") @@
    ("@state/*" :> "state") @@
    ("@store/*" :> "store") @@
    ("@service/*" :> "service") @@
    ("@styles/*" :> "styles") @@
    ("@utils/*" :> "utils") @@
    ("@i18n/*" :> "i18n") @@
    ("@theme/*" :> "theme") @@
    ("@types/*" :> "types") @@
    ("@constants/*" :> "constants") @@
    ("@context/*" :> "context") @@
    ("@hooks/*" :> "hooks")

targetName ==
    ("assets/*" :> "assets") @@
    ("features/*" :> "features") @@
    ("navigation/*" :> "navigation") @@
    ("components/*" :> "components") @@
    ("state/*" :> "state") @@
    ("store/*" :> "store") @@
    ("service/*" :> "service") @@
    ("styles/*" :> "styles") @@
    ("utils/*" :> "utils") @@
    ("i18n/*" :> "i18n") @@
    ("theme/*" :> "theme") @@
    ("types/*" :> "types") @@
    ("constants/*" :> "constants") @@
    ("context/*" :> "context") @@
    ("hooks/*" :> "hooks")

\* The directory a target pattern of alias key k denotes: the part of the
\* pattern before "/*", resolved against baseUrl "./src".
AliasDirectory(paths, k) == <<"src", targetName[paths[k][1]]>>

defaultConfig ==
    [extends |-> "@react-native/typescript-config/tsconfig.json",
     compilerOptions |->
        [typeRoots |-> <<"node_modules/@types", "src/types">>,
         types |-> <<"jest">>,
         baseUrl |-> "./src",
         paths |-> tsConfigPaths]]

\* writeJsonSync(file, obj, {spaces}) writes the JSON text of obj; the text is
\* kept as the document it denotes together with its indentation.
JsonDocument(obj, spaces) == [json |-> obj, spaces |-> spaces]

----------------------------------------------------------------------------
(* Console lines.                                                          *)

Line(msg, p) == [msg |-> msg, path |-> p]
titleBanner == Line("React Native Maker (Project Scaffolder)", Root)
successBanner == Line("Project structure created successfully!", Root)
errorBanner == Line("Scaffolding failed:", Root)

----------------------------------------------------------------------------
(* The filesystem seen as one value.                                       *)

Fs == [dirs |-> dirs, files |-> files, partial |-> partial]
emptyFs == [dirs |-> {Root}, files |-> << >>, partial |-> {}]
NoPrev == [ended |-> FALSE, ok |-> FALSE, config |-> defaultThisConfig, fs |-> emptyFs]

\* The conditional generators in the order scaffold() calls them, none of
\* them having made a call.
generatorOrder == <<"bottomNavigation", "storage", "navigation", "stateManagement">>
notStarted == [g \in {generatorOrder[k] : k \in 1..Len(generatorOrder)} |-> 0]

\* No helper of the generated storage files has been called yet.
NoCall ==
    [backend |-> "none", op |-> "none", failed |-> FALSE, threw |-> FALSE,
     returned |-> "void", before |-> << >>]

\* The navigation state of a container showing its first screen, and no
\* function of NavigationRef.ts called yet.
RouteNames == {"Home", "Login"}
initialNavigationState == [index |-> 0, routes |-> <<"Home">>]
NoNavCall ==
    [op |-> "none", routes |-> << >>, ready |-> FALSE, logged |-> "",
     before |-> initialNavigationState]

Init ==
    /\ pc = "scaffold"
    /\ i = 1
    /\ phase = "mkdirp"
    /\ config = defaultThisConfig
    /\ pending = {}
    /\ issued = << >>
    /\ answered = {}
    /\ dirs = {Root}
    /\ files = << >>
    /\ partial = {}
    /\ out = << >>
    /\ error = "none"
    /\ promise = "pending"
    /\ run = 1
    /\ fs0 = emptyFs
    /\ prev = NoPrev
    /\ slice = [value |-> 0]
    /\ store = [value |-> 0]
    /\ ctxValue = 0
    /\ incs = 0
    /\ decs = 0
    /\ asyncStorage = << >>
    /\ mmkv = << >>
    /\ call = NoCall
    /\ navReady = FALSE
    /\ navState = initialNavigationState
    /\ navCall = NoNavCall
    /\ at = notStarted


----------------------------------------------------------------------------
(* scaffold(): the prompts.                                                *)

\* A statement of scaffold() threw: control goes to the catch block.
Throw(e) ==
    /\ pc' = "catch"
    /\ error' = e
    /\ i' = 1
    /\ phase' = "mkdirp"

\* Ask with the await of promptBottomNavigation() left out: scaffold() goes on
\* to the next prompt while the first one is still open.
AskWithoutAwait(name, awaitPc) ==
    /\ pending' = pending \cup {name}
    /\ issued' = Append(issued, name)
    /\ pc' = IF name = "bottomNav" THEN "promptStorageSetup" ELSE awaitPc
    /\ UNCHANGED <<i, phase, config, answered, dirs, files, partial, out, error,
                   promise, run, fs0, prev>>
    /\ UNCHANGED <<generatedVars, at>>

\* inquirer.prompt([...]) is called: the question is put to the operator and
\* the method suspends at its await.
Ask(name, awaitPc) ==
    /\ pending' = pending \cup {name}
    /\ issued' = Append(issued, name)
    /\ pc' = awaitPc
    /\ UNCHANGED <<i, phase, config, answered, dirs, files, partial, out, error,
                   promise, run, fs0, prev>>
    /\ UNCHANGED <<generatedVars, at>>

\* The promise of inquirer.prompt resolved with the operator's answer.
Answered(name, newConfig, nextPc) ==
    /\ name \in pending
    /\ pending' = pending \ {name}
    /\ answered' = answered \cup {name}
    /\ config' = newConfig
    /\ pc' = nextPc
    /\ UNCHANGED <<i, phase, issued, dirs, files, partial, out, error, promise,
                   run, fs0, prev>>
    /\ UNCHANGED <<generatedVars, at>>

\* Scaffold with ensureNavigationDirectory() moved ahead of the prompts.
ScaffoldMkdirFirst ==
    /\ pc = "scaffold"
    /\ out' = Append(out, titleBanner)
    /\ dirs' = dirs \cup Prefixes(navigationPath)
    /\ pc' = "promptBottomNavigation"
    /\ UNCHANGED <<i, phase, config, pending, issued, answered, files, partial, error,
                   promise, run, fs0, prev>>
    /\ UNCHANGED <<generatedVars, at>>

Scaffold ==
    /\ pc = "scaffold"
    /\ out' = Append(out, titleBanner)
    /\ pc' = "promptBottomNavigation"
    /\ UNCHANGED <<i, phase, config, pending, issued, answered, dirs, files,
          partial, error,
                   promise, run, fs0, prev>>
    /\ UNCHANGED <<generatedVars, at>>

PromptBottomNavigation ==
    /\ pc = "promptBottomNavigation"
    /\ Ask("bottomNav", "awaitBottomNavigation")

BottomNavigationAnswered ==
    /\ pc = "awaitBottomNavigation"
    /\ \E bottomNav \in ConfirmAnswers :
          Answered("bottomNav", [config EXCEPT !.bottomNavigation = bottomNav],
                   "promptStorageSetup")

PromptStorageSetup ==
    /\ pc = "promptStorageSetup"
    /\ Ask("storageType", "awaitStorageSetup")

StorageSetupAnswered ==
    /\ pc = "awaitStorageSetup"
    /\ \E storageType \in storageChoices :
          Answered("storageType", [config EXCEPT !.storageType = storageType],
                   "promptNavigationSetup")

PromptNavigationSetup ==
    /\ pc = "promptNavigationSetup"
    /\ Ask("navigationSetup", "awaitNavigationSetup")

NavigationSetupAnswered ==
    /\ pc = "awaitNavigationSetup"
    /\ \E navigationSetup \in ConfirmAnswers :
          Answered("navigationSetup",
                   [config EXCEPT !.navigationSetup = navigationSetup],
                   "promptStateManagement")

PromptStateManagement ==
    /\ pc = "promptStateManagement"
    /\ Ask("stateManagement", "awaitStateManagement")

StateManagementAnswered ==
    /\ pc = "awaitStateManagement"
    /\ \E stateManagement \in stateManagementChoices :
          Answered("stateManagement",
                   [config EXCEPT !.stateManagement = stateManagement],
                   "createBaseDirectories")

\* The promise of inquirer.prompt rejected (no interactive terminal, input
\* closed): the await throws inside the try block of scaffold().
PromptRejected ==
    /\ pending # {}
    /\ pc \in {"awaitBottomNavigation", "awaitStorageSetup",
               "awaitNavigationSetup", "awaitStateManagement"}
    /\ pending' = {}
    /\ Throw("InputUnavailable")
    /\ UNCHANGED <<config, issued, answered, dirs, files, partial, out, promise,
                   run, fs0, prev>>
    /\ UNCHANGED <<generatedVars, at>>

----------------------------------------------------------------------------
(* scaffold(): the generators.                                             *)

\* The if statements of scaffold() between the generators: the statement that
\* runs after each generator returns.
IfStateManagement(c) ==
    IF Truthy(c.stateManagement) THEN "setupStateManagement" ELSE "createUtilityFiles"
\* IfNavigationSetup testing config.bottomNavigation in place of
\* config.navigationSetup.
IfNavigationSetupOnBottomNavigation(c) ==
    IF c.bottomNavigation THEN "setupNavigation" ELSE IfStateManagement(c)
IfNavigationSetup(c) ==
    IF c.navigationSetup THEN "setupNavigation" ELSE IfStateManagement(c)
IfStorageType(c) ==
    IF Truthy(c.storageType) THEN "setupStorage" ELSE IfNavigationSetup(c)
\* IfBottomNavigation with the test of config.bottomNavigation left out.
IfBottomNavigationAlways(c) == "setupBottomNavigation"
IfBottomNavigation(c) ==
    IF c.bottomNavigation THEN "setupBottomNavigation" ELSE IfStorageType(c)

\* The forEach callback returned for element i of n: the next element, or the
\* statement after the method.
Advance(n, nextPc) ==
    IF i < n
    THEN /\ i' = i + 1
         /\ pc' = pc
    ELSE /\ i' = 1
         /\ pc' = nextPc

\* fs.mkdirpSync(p) inside a loop over n directories, logging msg when done.
MkdirpEach(p, msg, n, nextPc) ==
    /\ \E o \in MkdirpOutcomes(dirs, files, p) :
          /\ dirs' = o.dirs
          /\ IF o.error = "none"
             THEN /\ out' = Append(out, Line(msg, p))
                  /\ Advance(n, nextPc)
                  /\ UNCHANGED <<phase, error>>
             ELSE /\ Throw(o.error)
                  /\ UNCHANGED out
    /\ UNCHANGED <<config, pending, issued, answered, files, partial, promise, run, fs0, prev>>
    /\ UNCHANGED <<generatedVars, at>>

\* One forEach callback over a list of {path, content}:
\* fs.mkdirpSync(path.dirname(fullPath)), then fs.writeFileSync(fullPath, content).
WriteEach(list, msg, nextPc) ==
    IF Len(list) = 0
    THEN /\ pc' = nextPc
         /\ UNCHANGED <<i, phase, config, pending, issued, answered, dirs, files,
          partial, out,
                        error, promise, run, fs0, prev>>
         /\ UNCHANGED <<generatedVars, at>>
    ELSE \/ /\ phase = "mkdirp"
            /\ \E o \in MkdirpOutcomes(dirs, files, Parent(list[i].path)) :
                  /\ dirs' = o.dirs
                  /\ IF o.error = "none"
                     THEN /\ phase' = "write"
                          /\ UNCHANGED <<pc, i, error>>
                     ELSE Throw(o.error)
            /\ UNCHANGED <<config, pending, issued, answered, files, partial, out, promise,
                           run, fs0, prev>>
            /\ UNCHANGED <<generatedVars, at>>
         \/ /\ phase = "write"
            /\ \E o \in WriteOutcomes(dirs, files, partial, list[i].path, list[i].content) :
                  /\ files' = o.files
                  /\ partial' = o.partial
                  /\ IF o.error = "none"
                     THEN /\ out' = Append(out, Line(msg, list[i].path))
                          /\ phase' = "mkdirp"
                          /\ Advance(Len(list), nextPc)
                          /\ UNCHANGED error
                     ELSE /\ Throw(o.error)
                          /\ UNCHANGED out
            /\ UNCHANGED <<config, pending, issued, answered, dirs, promise, run, fs0, prev>>
            /\ UNCHANGED <<generatedVars, at>>

CreateBaseDirectories ==
    /\ pc = "createBaseDirectories"
    /\ MkdirpEach(baseDirectories[i], "Created directory", Len(baseDirectories),
                  "ensureNavigationDirectory")

\* EnsureNavigationDirectory that logs its line without calling mkdirpSync.
EnsureNavigationDirectoryLogOnly ==
    /\ pc = "ensureNavigationDirectory"
    /\ out' = Append(out, Line("Ensured navigation directory exists", navigationPath))
    /\ pc' = IfBottomNavigation(config)
    /\ UNCHANGED <<i, phase, config, pending, issued, answered, dirs, files, partial,
                   error, promise, run, fs0, prev>>
    /\ UNCHANGED <<generatedVars, at>>

EnsureNavigationDirectory ==
    /\ pc = "ensureNavigationDirectory"
    /\ MkdirpEach(navigationPath, "Ensured navigation directory exists", 1,
                  IfBottomNavigation(config))

\* Two loops: the directories, then the files (written without a mkdirp).
SetupBottomNavigation ==
    /\ pc = "setupBottomNavigation"
    /\ \/ /\ phase = "mkdirp"
          /\ \E o \in MkdirpOutcomes(dirs, files, bottomNavDirectories[i]) :
                /\ dirs' = o.dirs
                /\ IF o.error = "none"
                   THEN /\ out' = Append(out, Line("Created Bottom Nav directory",
                                                   bottomNavDirectories[i]))
                        /\ IF i < Len(bottomNavDirectories)
                           THEN /\ i' = i + 1
                                /\ phase' = phase
                           ELSE /\ i' = 1
                                /\ phase' = "write"
                        /\ UNCHANGED <<pc, error>>
                   ELSE /\ Throw(o.error)
                        /\ UNCHANGED out
          /\ UNCHANGED <<config, pending, issued, answered, files, partial, promise, run, fs0, prev>>
          /\ UNCHANGED <<generatedVars, at>>
       \/ /\ phase = "write"
          /\ \E o \in WriteOutcomes(dirs, files, partial, bottomNavFiles[i].path,
                                    bottomNavFiles[i].content) :
                /\ files' = o.files
                /\ partial' = o.partial
                /\ IF o.error = "none"
                   THEN /\ out' = Append(out, Line("Created Bottom Nav file",
                                                   bottomNavFiles[i].path))
                        /\ phase' = IF i < Len(bottomNavFiles) THEN phase ELSE "mkdirp"
                        /\ Advance(Len(bottomNavFiles), IfStorageType(config))
                        /\ UNCHANGED error
                   ELSE /\ Throw(o.error)
                        /\ UNCHANGED out
          /\ UNCHANGED <<config, pending, issued, answered, dirs, promise, run, fs0, prev>>
          /\ UNCHANGED <<generatedVars, at>>

SetupStorage ==
    /\ pc = "setupStorage"
    /\ WriteEach(storageFiles(config.storageType), "Created storage file",
                 IfNavigationSetup(config))

SetupNavigation ==
    /\ pc = "setupNavigation"
    /\ WriteEach(navigationFiles, "Created navigation file", IfStateManagement(config))

SetupStateManagement ==
    /\ pc = "setupStateManagement"
    /\ WriteEach(stateManagementFiles(config.stateManagement),
                 "Created state management file", "createUtilityFiles")

CreateUtilityFiles ==
    /\ pc = "createUtilityFiles"
    /\ WriteEach(utilFiles, "Created utility file", "createTsConfig")

CreateTsConfig ==
    /\ pc = "createTsConfig"
    /\ \E o \in WriteOutcomes(dirs, files, partial, tsConfigPath,
                              JsonDocument(defaultConfig, 2)) :
          /\ files' = o.files
          /\ partial' = o.partial
          /\ IF o.error = "none"
             THEN /\ out' = Append(out, Line("Created/Updated tsconfig.json", tsConfigPath))
                  /\ pc' = "success"
                  /\ UNCHANGED <<i, phase, error>>
             ELSE /\ Throw(o.error)
                  /\ UNCHANGED out
    /\ UNCHANGED <<config, pending, issued, answered, dirs, promise, run, fs0, prev>>
    /\ UNCHANGED <<generatedVars, at>>

\* The last statement of the try block; scaffold() then returns.
ScaffoldSucceeded ==
    /\ pc = "success"
    /\ out' = Append(out, successBanner)
    /\ promise' = "fulfilled"
    /\ pc' = "done"
    /\ UNCHANGED <<i, phase, config, pending, issued, answered, dirs, files,
          partial, error,
                   run, fs0, prev>>
    /\ UNCHANGED <<generatedVars, at>>

\* CatchBlock that rethrows: the promise scaffold() returned is rejected.
CatchBlockRethrow(fs) == [fs |-> fs, promise |-> "rejected"]
\* CatchBlock that removes what the failed run created.
CatchBlockRollback(fs) == [fs |-> fs0, promise |-> "fulfilled"]

\* What the catch block of scaffold() does with the filesystem and with the
\* promise scaffold() returned.
CatchBlock(fs) == [fs |-> fs, promise |-> "fulfilled"]

ScaffoldCaught ==
    /\ pc = "catch"
    /\ out' = Append(out, errorBanner)
    /\ dirs' = CatchBlock(Fs).fs.dirs
    /\ files' = CatchBlock(Fs).fs.files
    /\ partial' = CatchBlock(Fs).fs.partial
    /\ promise' = CatchBlock(Fs).promise
    /\ pc' = "done"
    /\ UNCHANGED <<i, phase, config, pending, issued, answered, error, run, fs0, prev>>
    /\ UNCHANGED <<generatedVars, at>>

\* The tool is invoked again on the same root: a new process, a new
\* ReactNativeProjectScaffolder. The operator does so after a run that ended
\* with the success banner.
\* Invoke with the root emptied before the run starts.
InvokeOnEmptiedRoot ==
    /\ pc = "done"
    /\ run < MaxRuns
    /\ error = "none"
    /\ pc' = "scaffold"
    /\ i' = 1
    /\ phase' = "mkdirp"
    /\ config' = defaultThisConfig
    /\ pending' = {}
    /\ issued' = << >>
    /\ answered' = {}
    /\ out' = << >>
    /\ error' = "none"
    /\ promise' = "pending"
    /\ run' = run + 1
    /\ dirs' = emptyFs.dirs
    /\ files' = emptyFs.files
    /\ partial' = emptyFs.partial
    /\ fs0' = emptyFs
    /\ prev' = [ended |-> TRUE, ok |-> error = "none", config |-> config, fs |-> Fs]
    /\ UNCHANGED <<generatedVars, at>>

Invoke ==
    /\ pc = "done"
    /\ run < MaxRuns
    /\ error = "none"
    /\ pc' = "scaffold"
    /\ i' = 1
    /\ phase' = "mkdirp"
    /\ config' = defaultThisConfig
    /\ pending' = {}
    /\ issued' = << >>
    /\ answered' = {}
    /\ out' = << >>
    /\ error' = "none"
    /\ promise' = "pending"
    /\ run' = run + 1
    /\ fs0' = Fs
    /\ prev' = [ended |-> TRUE, ok |-> error = "none", config |-> config, fs |-> Fs]
    /\ UNCHANGED <<dirs, files, partial>>
    /\ UNCHANGED <<generatedVars, at>>

Next ==
    \/ Scaffold
    \/ PromptBottomNavigation
    \/ BottomNavigationAnswered
    \/ PromptStorageSetup
    \/ StorageSetupAnswered
    \/ PromptNavigationSetup
    \/ NavigationSetupAnswered
    \/ PromptStateManagement
    \/ StateManagementAnswered
    \/ PromptRejected
    \/ CreateBaseDirectories
    \/ EnsureNavigationDirectory
    \/ SetupBottomNavigation
    \/ SetupStorage
    \/ SetupNavigation
    \/ SetupStateManagement
    \/ CreateUtilityFiles
    \/ CreateTsConfig
    \/ ScaffoldSucceeded
    \/ ScaffoldCaught
    \/ Invoke

Spec == Init /\ [][Next]_vars


----------------------------------------------------------------------------
(* The conditional generators run in any order, their filesystem calls     *)
(* interleaved, in place of lines 42-56 of scaffold().                     *)

MkdirpCall(p) == [op |-> "mkdirp", path |-> p, content |-> ""]
WriteCall(file) == [op |-> "write", path |-> file.path, content |-> file.content]

\* The calls of a forEach over a list of {path, content}: for each file,
\* mkdirpSync of its directory, then writeFileSync.
FileCalls(list) ==
    [j \in 1..(2 * Len(list)) |->
        IF j % 2 = 1 THEN MkdirpCall(Parent(list[(j + 1) \div 2].path))
        ELSE WriteCall(list[j \div 2])]

\* The calls of setupBottomNavigation: its directories, then its files.
BottomNavigationCalls ==
    [j \in 1..Len(bottomNavDirectories) |-> MkdirpCall(bottomNavDirectories[j])]
    \o [j \in 1..Len(bottomNavFiles) |-> WriteCall(bottomNavFiles[j])]

\* The filesystem calls generator g makes under configuration c, in order;
\* none if scaffold() does not call it.
GeneratorCalls(g, c) ==
    IF g = "bottomNavigation"
    THEN IF c.bottomNavigation THEN BottomNavigationCalls ELSE << >>
    ELSE IF g = "storage"
    THEN IF Truthy(c.storageType) THEN FileCalls(storageFiles(c.storageType)) ELSE << >>
    ELSE IF g = "navigation"
    THEN IF c.navigationSetup THEN FileCalls(navigationFiles) ELSE << >>
    ELSE IF Truthy(c.stateManagement)
         THEN FileCalls(stateManagementFiles(c.stateManagement))
         ELSE << >>

Generators == {generatorOrder[k] : k \in 1..Len(generatorOrder)}

\* scaffold() has reached its first conditional generator, which has not
\* started: the generators are run interleaved from here.
StartInterleaved ==
    /\ pc = IfBottomNavigation(config)
    /\ pc \in {"setupBottomNavigation", "setupStorage", "setupNavigation",
               "setupStateManagement"}
    /\ i = 1
    /\ phase = "mkdirp"
    /\ pc' = "interleaved"
    /\ at' = notStarted
    /\ UNCHANGED <<i, phase, config, pending, issued, answered, dirs, files, partial,
                   out, error, promise, run, fs0, prev>>
    /\ UNCHANGED generatedVars

\* Some generator makes its next filesystem call.
GeneratorStep ==
    /\ pc = "interleaved"
    /\ \E g \in Generators :
          /\ at[g] < Len(GeneratorCalls(g, config))
          /\ LET c == GeneratorCalls(g, config)[at[g] + 1]
             IN  IF c.op = "mkdirp"
                 THEN \E o \in MkdirpOutcomes(dirs, files, c.path) :
                         /\ dirs' = o.dirs
                         /\ UNCHANGED <<files, partial>>
                         /\ IF o.error = "none"
                            THEN /\ at' = [at EXCEPT ![g] = @ + 1]
                                 /\ UNCHANGED <<pc, i, phase, error>>
                            ELSE /\ Throw(o.error)
                                 /\ UNCHANGED at
                 ELSE \E o \in WriteOutcomes(dirs, files, partial, c.path, c.content) :
                         /\ files' = o.files
                         /\ partial' = o.partial
                         /\ UNCHANGED dirs
                         /\ IF o.error = "none"
                            THEN /\ at' = [at EXCEPT ![g] = @ + 1]
                                 /\ UNCHANGED <<pc, i, phase, error>>
                            ELSE /\ Throw(o.error)
                                 /\ UNCHANGED at
    /\ UNCHANGED <<config, pending, issued, answered, out, promise, run, fs0, prev>>
    /\ UNCHANGED generatedVars

\* Every generator has made all its calls: scaffold() goes on at line 59.
InterleavedDone ==
    /\ pc = "interleaved"
    /\ \A g \in Generators : at[g] = Len(GeneratorCalls(g, config))
    /\ pc' = "createUtilityFiles"
    /\ UNCHANGED <<i, phase, config, pending, issued, answered, dirs, files, partial,
                   out, error, promise, run, fs0, prev>>
    /\ UNCHANGED <<generatedVars, at>>

\* What a call leaves on disk when the system does not fail it.
ApplyCall(fs, c) ==
    IF c.op = "mkdirp"
    THEN LET o == CHOOSE o \in MkdirpOutcomes(fs.dirs, fs.files, c.path) :
                      o.error # "EACCES"
         IN  [fs EXCEPT !.dirs = o.dirs]
    ELSE LET o == CHOOSE o \in WriteOutcomes(fs.dirs, fs.files, fs.partial, c.path,
                                             c.content) :
                      o.error \notin {"EACCES", "ENOSPC"}
         IN  [fs EXCEPT !.files = o.files, !.partial = o.partial]

RECURSIVE RunCalls(_, _)
RunCalls(fs, calls) ==
    IF Len(calls) = 0 THEN fs ELSE RunCalls(ApplyCall(fs, Head(calls)), Tail(calls))

\* The filesystem calls of scaffold() under configuration c, in its order.
ScaffoldCalls(c) ==
    [j \in 1..Len(baseDirectories) |-> MkdirpCall(baseDirectories[j])]
    \o <<MkdirpCall(navigationPath)>>
    \o GeneratorCalls(generatorOrder[1], c)
    \o GeneratorCalls(generatorOrder[2], c)
    \o GeneratorCalls(generatorOrder[3], c)
    \o GeneratorCalls(generatorOrder[4], c)
    \o FileCalls(utilFiles)
    \o <<[op |-> "write", path |-> tsConfigPath,
          content |-> JsonDocument(defaultConfig, 2)]>>

InterleavedNext ==
    \/ Scaffold
    \/ PromptBottomNavigation
    \/ BottomNavigationAnswered
    \/ PromptStorageSetup
    \/ StorageSetupAnswered
    \/ PromptNavigationSetup
    \/ NavigationSetupAnswered
    \/ PromptStateManagement
    \/ StateManagementAnswered
    \/ PromptRejected
    \/ CreateBaseDirectories
    \/ EnsureNavigationDirectory
    \/ SetupBottomNavigation
    \/ SetupStorage
    \/ SetupNavigation
    \/ SetupStateManagement
    \/ StartInterleaved
    \/ GeneratorStep
    \/ InterleavedDone
    \/ CreateUtilityFiles
    \/ CreateTsConfig
    \/ ScaffoldSucceeded
    \/ ScaffoldCaught

InterleavedSpec == Init /\ [][InterleavedNext]_vars

----------------------------------------------------------------------------
(* The counters of the generated state-management files.                   *)

\* Redux Toolkit: the reducers of exampleSlice, applied to the slice state.
exampleSliceReducer(state, action) ==
    IF action = "example/increment" THEN [state EXCEPT !.value = @ + 1]
    ELSE IF action = "example/decrement" THEN [state EXCEPT !.value = @ - 1]
    ELSE state

\* Zustand: the partial states the two setters of exampleStore hand to set().
exampleStoreIncrement(state) == [value |-> state.value + 1]
\* exampleStoreDecrement that does not go below zero.
exampleStoreDecrementClamped(state) ==
    [value |-> IF state.value > 0 THEN state.value - 1 ELSE 0]
exampleStoreDecrement(state) == [value |-> state.value - 1]
\* set(fn) merges fn(state) into the state.
exampleStoreSet(state, partialState) == partialState @@ state

\* Context API: the updaters increment and decrement hand to setValue().
ExampleProviderIncrement(prevValue) == prevValue + 1
ExampleProviderDecrement(prevValue) == prevValue - 1

\* increment() is called on each of the three counters.
Increment ==
    /\ incs + decs < MaxCalls
    /\ slice' = exampleSliceReducer(slice, "example/increment")
    /\ store' = exampleStoreSet(store, exampleStoreIncrement(store))
    /\ ctxValue' = ExampleProviderIncrement(ctxValue)
    /\ incs' = incs + 1
    /\ UNCHANGED decs
    /\ UNCHANGED <<scaffoldVars, storageVars, navVars, at>>

\* decrement() is called on each of the three counters.
Decrement ==
    /\ incs + decs < MaxCalls
    /\ slice' = exampleSliceReducer(slice, "example/decrement")
    /\ store' = exampleStoreSet(store, exampleStoreDecrement(store))
    /\ ctxValue' = ExampleProviderDecrement(ctxValue)
    /\ decs' = decs + 1
    /\ UNCHANGED incs
    /\ UNCHANGED <<scaffoldVars, storageVars, navVars, at>>

CounterNext ==
    \/ Increment
    \/ Decrement

CounterSpec == Init /\ [][CounterNext]_vars


----------------------------------------------------------------------------
(* The storage helpers of the generated asyncStorage.ts and mmkvStorage.ts. *)

\* The keys and values the helpers are called with.
StorageKeys == {"token", "theme"}
StorageValues == {"on", "off"}

\* The calls on the underlying store: each one either takes effect and
\* returns, or throws (rejects) leaving the store as it was.
\* AsyncStorage.getItem resolves with null for a key that is not there,
\* MMKV getString returns undefined.
StoreSet(st, key, value) ==
    {[store |-> (key :> value) @@ st, value |-> "void", threw |-> FALSE],
     [store |-> st, value |-> "void", threw |-> TRUE]}
StoreGet(st, key, absent) ==
    {[store |-> st, value |-> IF key \in DOMAIN st THEN st[key] ELSE absent,
      threw |-> FALSE],
     [store |-> st, value |-> "void", threw |-> TRUE]}
StoreRemove(st, key) ==
    {[store |-> [k \in DOMAIN st \ {key} |-> st[k]], value |-> "void", threw |-> FALSE],
     [store |-> st, value |-> "void", threw |-> TRUE]}
StoreClear(st) ==
    {[store |-> << >>, value |-> "void", threw |-> FALSE],
     [store |-> st, value |-> "void", threw |-> TRUE]}

\* getItem with a catch block that logs and rethrows.
GetItemRethrows(o) ==
    [returned |-> IF o.threw THEN "void" ELSE o.value, threw |-> o.threw]

\* try { const value = <store call>; return value; } catch (error) { return null; }
GetItemBody(o) ==
    [returned |-> IF o.threw THEN "null" ELSE o.value, threw |-> FALSE]
\* try { <store call>; } catch (error) { console.error(...); }
VoidOperationBody(o) == [returned |-> "void", threw |-> FALSE]

\* A helper was called: what the store call did and what the helper handed
\* to its caller.
Called(backend, op, before, o, result) ==
    [backend |-> backend, op |-> op, failed |-> o.threw, threw |-> result.threw,
     returned |-> result.returned, before |-> before]

StorageUtilSetItem ==
    /\ \E key \in StorageKeys, value \in StorageValues :
          \E o \in StoreSet(asyncStorage, key, value) :
             /\ asyncStorage' = o.store
             /\ call' = Called("AsyncStorage", "setItem", asyncStorage, o,
                               VoidOperationBody(o))
    /\ UNCHANGED <<mmkv, scaffoldVars, counterVars, navVars, at>>

StorageUtilGetItem ==
    /\ \E key \in StorageKeys :
          \E o \in StoreGet(asyncStorage, key, "null") :
             /\ asyncStorage' = o.store
             /\ call' = Called("AsyncStorage", "getItem", asyncStorage, o, GetItemBody(o))
    /\ UNCHANGED <<mmkv, scaffoldVars, counterVars, navVars, at>>

StorageUtilDeleteItem ==
    /\ \E key \in StorageKeys :
          \E o \in StoreRemove(asyncStorage, key) :
             /\ asyncStorage' = o.store
             /\ call' = Called("AsyncStorage", "deleteItem", asyncStorage, o,
                               VoidOperationBody(o))
    /\ UNCHANGED <<mmkv, scaffoldVars, counterVars, navVars, at>>

StorageUtilClearAll ==
    /\ \E o \in StoreClear(asyncStorage) :
          /\ asyncStorage' = o.store
          /\ call' = Called("AsyncStorage", "clearAll", asyncStorage, o,
                            VoidOperationBody(o))
    /\ UNCHANGED <<mmkv, scaffoldVars, counterVars, navVars, at>>

MMKVStorageUtilSetItem ==
    /\ \E key \in StorageKeys, value \in StorageValues :
          \E o \in StoreSet(mmkv, key, value) :
             /\ mmkv' = o.store
             /\ call' = Called("MMKV", "setItem", mmkv, o, VoidOperationBody(o))
    /\ UNCHANGED <<asyncStorage, scaffoldVars, counterVars, navVars, at>>

MMKVStorageUtilGetItem ==
    /\ \E key \in StorageKeys :
          \E o \in StoreGet(mmkv, key, "undefined") :
             /\ mmkv' = o.store
             /\ call' = Called("MMKV", "getItem", mmkv, o, GetItemBody(o))
    /\ UNCHANGED <<asyncStorage, scaffoldVars, counterVars, navVars, at>>

MMKVStorageUtilDeleteItem ==
    /\ \E key \in StorageKeys :
          \E o \in StoreRemove(mmkv, key) :
             /\ mmkv' = o.store
             /\ call' = Called("MMKV", "deleteItem", mmkv, o, VoidOperationBody(o))
    /\ UNCHANGED <<asyncStorage, scaffoldVars, counterVars, navVars, at>>

MMKVStorageUtilClearAll ==
    /\ \E o \in StoreClear(mmkv) :
          /\ mmkv' = o.store
          /\ call' = Called("MMKV", "clearAll", mmkv, o, VoidOperationBody(o))
    /\ UNCHANGED <<asyncStorage, scaffoldVars, counterVars, navVars, at>>

StorageNext ==
    \/ StorageUtilSetItem
    \/ StorageUtilGetItem
    \/ StorageUtilDeleteItem
    \/ StorageUtilClearAll
    \/ MMKVStorageUtilSetItem
    \/ MMKVStorageUtilGetItem
    \/ MMKVStorageUtilDeleteItem
    \/ MMKVStorageUtilClearAll

StorageSpec == Init /\ [][StorageNext]_vars

----------------------------------------------------------------------------
(* The functions of the generated NavigationRef.ts.                        *)

\* The route lists of at most n routes.
RouteLists(n) == UNION {[1..k -> RouteNames] : k \in 0..n}

\* The argument of navigationRef.reset with the index of the first route.
ResetActionFirstRoute(routes) == [index |-> 0, routes |-> routes]

\* The argument resetNavigationStack hands to navigationRef.reset.
ResetAction(routes) == [index |-> Len(routes) - 1, routes |-> routes]

NavCalled(op, routes, logged) ==
    [op |-> op, routes |-> routes, ready |-> navReady, logged |-> logged,
     before |-> navState]

\* The NavigationContainer holding navigationRef is mounted or unmounted.
NavigationContainerMounts ==
    /\ navReady' = ~navReady
    /\ UNCHANGED <<navState, navCall, scaffoldVars, counterVars, storageVars, at>>

navigate ==
    /\ \E routeName \in RouteNames :
          IF navReady
          THEN /\ Len(navState.routes) < MaxRoutes
               /\ navState' = [index |-> navState.index + 1,
                               routes |-> Append(SubSeq(navState.routes, 1,
                                                        navState.index + 1), routeName)]
               /\ navCall' = NavCalled("navigate", <<routeName>>, "")
          ELSE /\ navState' = navState
               /\ navCall' = NavCalled("navigate", <<routeName>>, "Navigation is not ready")
    /\ UNCHANGED <<navReady, scaffoldVars, counterVars, storageVars, at>>

goBack ==
    /\ IF navReady /\ navState.index > 0
       THEN /\ navState' = [index |-> navState.index - 1,
                            routes |-> SubSeq(navState.routes, 1, navState.index)]
            /\ navCall' = NavCalled("goBack", << >>, "")
       ELSE /\ navState' = navState
            /\ navCall' = NavCalled("goBack", << >>, "No routes to go back to")
    /\ UNCHANGED <<navReady, scaffoldVars, counterVars, storageVars, at>>

resetNavigationStack ==
    /\ \E routes \in RouteLists(MaxRoutes) :
          IF navReady
          THEN /\ navState' = ResetAction(routes)
               /\ navCall' = NavCalled("resetNavigationStack", routes, "")
          ELSE /\ navState' = navState
               /\ navCall' = NavCalled("resetNavigationStack", routes,
                                       "Navigation is not ready")
    /\ UNCHANGED <<navReady, scaffoldVars, counterVars, storageVars, at>>

NavigationNext ==
    \/ NavigationContainerMounts
    \/ navigate
    \/ goBack
    \/ resetNavigationStack

NavigationSpec == Init /\ [][NavigationNext]_vars

----------------------------------------------------------------------------
(* Properties.                                                             *)

Range(seq) == {seq[k] : k \in 1..Len(seq)}
IsPrefix(a, b) == Len(a) <= Len(b) /\ a = SubSeq(b, 1, Len(a))

\* A run that started on an empty root has ended with the success banner.
SucceededOnEmptyRoot ==
    /\ pc = "done"
    /\ error = "none"
    /\ fs0 = emptyFs

\* The paths the lines msg of the console name.
Logged(msg) == {l.path : l \in {m \in Range(out) : m.msg = msg}}

\* C1 as stated: every run of scaffold() issues exactly the four prompts, in
\* the order bottom navigation, storage, navigation setup, state management,
\* with at most one of them pending at any time.
C1_EveryRunIssuesFourPrompts ==
    /\ Cardinality(pending) <= 1
    /\ pc = "done" => issued = promptOrder

\* C1 amended: the prompts issued so far are always an initial part of the
\* fixed order, each one issued only after the one before it was answered and
\* at most one pending at any time; a run in which no prompt fails issues
\* exactly the four of them, and a run in which a prompt fails issues none
\* after the failed one.
C1_PromptsSequentialInOrder ==
    /\ IsPrefix(issued, promptOrder)
    /\ Cardinality(pending) <= 1
    /\ pending \subseteq {issued[k] : k \in {Len(issued)} \ {0}}
    /\ \A k \in 2..Len(issued) : issued[k - 1] \in answered
    /\ (pc = "done" /\ error # "InputUnavailable") => issued = promptOrder
    /\ error = "InputUnavailable" =>
          /\ Len(issued) = Cardinality(answered) + 1
          /\ issued[Len(issued)] \notin answered

C1_Witness ==
    /\ pc = "awaitStateManagement"
    /\ pending = {"stateManagement"}
    /\ answered = {"bottomNav", "storageType", "navigationSetup"}

\* C2: nothing under the root is created or written before all four prompts
\* have been answered, and a run in which a prompt fails is aborted, no
\* generator running, with the filesystem exactly as it was when the run
\* started.
C2_NoMutationBeforeAnswers ==
    /\ Cardinality(answered) < Len(promptOrder) => Fs = fs0
    /\ error = "InputUnavailable" =>
          /\ Fs = fs0
          /\ pc \in {"catch", "done"}
          /\ Range(out) \subseteq {titleBanner, errorBanner}

C2_Witness ==
    /\ pc = "done"
    /\ error = "InputUnavailable"
    /\ Cardinality(answered) = 3
    /\ run = 2
    /\ Fs # emptyFs

\* The fixed outputs of a run.
BaseDirectories == UNION {Prefixes(baseDirectories[k]) : k \in 1..Len(baseDirectories)}
FixedFiles == {utilFiles[k].path : k \in 1..Len(utilFiles)} \cup {tsConfigPath}
AllDeclined ==
    /\ config.bottomNavigation = FALSE
    /\ config.storageType = "None"
    /\ config.navigationSetup = FALSE
    /\ config.stateManagement = "None"

\* C3 as stated: after a successful run on an empty root with every option
\* declined, the directories are exactly those of the createBaseDirectories
\* list with their ancestors, the files exactly the two utility files and
\* tsconfig.json.
C3_OnlyBaseDirectories ==
    (SucceededOnEmptyRoot /\ AllDeclined) =>
        /\ dirs = BaseDirectories
        /\ DOMAIN files = FixedFiles

\* C3 amended: after such a run the directories are those of the
\* createBaseDirectories list with their ancestors and src/navigation, which
\* ensureNavigationDirectory creates in every run; the files are exactly the
\* two utility files and tsconfig.json, all written in full.
C3_BaseDirectoriesAndNavigation ==
    (SucceededOnEmptyRoot /\ AllDeclined) =>
        /\ dirs = BaseDirectories \cup {navigationPath}
        /\ DOMAIN files = FixedFiles
        /\ partial = {}

C3_Witness ==
    /\ SucceededOnEmptyRoot
    /\ AllDeclined
    /\ successBanner \in Range(out)

asyncStoragePath == <<"src", "utils", "asyncStorage.ts">>
mmkvStoragePath == <<"src", "utils", "mmkvStorage.ts">>

\* C4: after a successful run on an empty root the storage generator has
\* written asyncStorage.ts and not mmkvStorage.ts for Async Storage,
\* mmkvStorage.ts and not asyncStorage.ts for React Native MMKV, and neither
\* for None, whatever the other three answers.
C4_OneStorageFile ==
    SucceededOnEmptyRoot =>
        /\ config.storageType = "Async Storage" =>
              /\ Logged("Created storage file") = {asyncStoragePath}
              /\ asyncStoragePath \in DOMAIN files
              /\ mmkvStoragePath \notin DOMAIN files
        /\ config.storageType = "React Native MMKV" =>
              /\ Logged("Created storage file") = {mmkvStoragePath}
              /\ mmkvStoragePath \in DOMAIN files
              /\ asyncStoragePath \notin DOMAIN files
        /\ config.storageType = "None" =>
              /\ Logged("Created storage file") = {}
              /\ asyncStoragePath \notin DOMAIN files
              /\ mmkvStoragePath \notin DOMAIN files

C4_Witness ==
    /\ SucceededOnEmptyRoot
    /\ config.storageType = "React Native MMKV"
    /\ config.bottomNavigation
    /\ config.navigationSetup
    /\ config.stateManagement = "Zustand"
    /\ mmkvStoragePath \in DOMAIN files

\* The files under src/store and src/context.
StateManagementFilesOnDisk ==
    {p \in DOMAIN files :
        Len(p) >= 2 /\ SubSeq(p, 1, 2) \in {<<"src", "store">>, <<"src", "context">>}}
ExpectedStateManagementFiles(choice) ==
    IF choice = "Redux Toolkit"
    THEN {<<"src", "store", "index.ts">>, <<"src", "store", "slices", "exampleSlice.ts">>}
    ELSE IF choice = "Zustand"
    THEN {<<"src", "store", "zustand", "exampleStore.ts">>}
    ELSE IF choice = "Context API"
    THEN {<<"src", "context", "providers", "ExampleProvider.tsx">>}
    ELSE {}

\* C5: after a successful run on an empty root the state-management files are
\* decided by the state-management answer alone: two for Redux Toolkit, one
\* for Zustand, one for Context API, none for None.
C5_StateManagementFiles ==
    SucceededOnEmptyRoot =>
        /\ StateManagementFilesOnDisk = ExpectedStateManagementFiles(config.stateManagement)
        /\ Logged("Created state management file")
              = ExpectedStateManagementFiles(config.stateManagement)
        /\ Cardinality(StateManagementFilesOnDisk)
              = IF config.stateManagement = "Redux Toolkit" THEN 2
                ELSE IF config.stateManagement = "None" THEN 0 ELSE 1

C5_Witness ==
    /\ SucceededOnEmptyRoot
    /\ config.stateManagement = "Redux Toolkit"
    /\ config.storageType = "Async Storage"
    /\ Cardinality(StateManagementFilesOnDisk) = 2


\* A run has written tsconfig.json in full.
TsConfigWritten ==
    /\ Line("Created/Updated tsconfig.json", tsConfigPath) \in Range(out)
    /\ tsConfigPath \in DOMAIN files
    /\ tsConfigPath \notin partial
TsConfigOnDisk == files[tsConfigPath].json.compilerOptions

\* C6 as stated: the paths mapping of the tsconfig.json that createTsConfig
\* wrote has exactly 14 alias keys, each mapped to a list of one element, and
\* baseUrl is "./src".
C6_FourteenAliases ==
    TsConfigWritten =>
        /\ Cardinality(DOMAIN TsConfigOnDisk.paths) = 14
        /\ \A alias \in DOMAIN TsConfigOnDisk.paths : Len(TsConfigOnDisk.paths[alias]) = 1
        /\ TsConfigOnDisk.baseUrl = "./src"

\* C6 amended: the paths mapping of the tsconfig.json that createTsConfig wrote
\* has exactly 15 alias keys, each mapped to a list of one element, and baseUrl
\* is "./src", for every configuration.
C6_FifteenAliases ==
    TsConfigWritten =>
        /\ Cardinality(DOMAIN TsConfigOnDisk.paths) = 15
        /\ \A alias \in DOMAIN TsConfigOnDisk.paths : Len(TsConfigOnDisk.paths[alias]) = 1
        /\ TsConfigOnDisk.baseUrl = "./src"

C6_Witness ==
    /\ TsConfigWritten
    /\ pc = "done"
    /\ config.bottomNavigation
    /\ config.storageType = "Async Storage"
    /\ "@types/*" \in DOMAIN TsConfigOnDisk.paths

\* The errors a call raises because of what already exists under the root.
ExistenceErrors == {"EEXIST", "ENOTDIR", "EISDIR", "ENOENT"}

\* The answers of this run are all in and equal those of the previous run on
\* this root, which ended with the success banner.
RepeatsPreviousRun ==
    /\ prev.ended
    /\ prev.ok
    /\ Cardinality(answered) = Len(promptOrder)
    /\ config = prev.config

\* C7: a second run on the same root with the same four answers is not stopped
\* by anything the first run left there, creates no directory and no file that
\* was not there, and when it ends with the success banner the directories,
\* the files and their contents are those the first run left.
C7_SecondRunIdentical ==
    RepeatsPreviousRun =>
        /\ error \notin ExistenceErrors
        /\ dirs = prev.fs.dirs
        /\ DOMAIN files = DOMAIN prev.fs.files
        /\ error = "none" => Fs = prev.fs

C7_Witness ==
    /\ RepeatsPreviousRun
    /\ pc = "done"
    /\ error = "none"
    /\ config.bottomNavigation
    /\ config.navigationSetup
    /\ config.storageType = "React Native MMKV"
    /\ config.stateManagement = "Redux Toolkit"
    /\ successBanner \in Range(out)

\* C8: the promise scaffold() returned is never rejected; a run that ended has
\* printed the success banner if and only if no prompt and no filesystem step
\* raised an error, in which case the tsconfig.json write is among the steps it
\* completed, and the error banner if and only if one did; never both.
C8_ErrorsCaughtAtTopLevel ==
    /\ promise # "rejected"
    /\ ~(successBanner \in Range(out) /\ errorBanner \in Range(out))
    /\ successBanner \in Range(out) => (error = "none" /\ TsConfigWritten)
    /\ errorBanner \in Range(out) => error # "none"
    /\ pc = "done" =>
          /\ promise = "fulfilled"
          /\ successBanner \in Range(out) <=> error = "none"
          /\ errorBanner \in Range(out) <=> error # "none"

C8_Witness ==
    /\ pc = "done"
    /\ promise = "fulfilled"
    /\ error = "ENOSPC"
    /\ errorBanner \in Range(out)
    /\ successBanner \notin Range(out)

\* The files this run has written in full so far.
WrittenThisRun == {l.path : l \in Range(out)} \cap DOMAIN files

\* C9: the step at which a directory or file creation fails is the last one of
\* the run that touches the filesystem: control goes to the catch block, no
\* later step runs or logs, and all that existed before the failure is still
\* there, the files this run wrote with their contents.
C9_AbortAtFailingStep ==
    [][/\ (error = "none" /\ error' # "none") =>
             /\ pc' = "catch"
             /\ out' = out
             /\ dirs \subseteq dirs'
             /\ DOMAIN files \subseteq DOMAIN files'
             /\ \A p \in WrittenThisRun :
                   /\ files'[p] = files[p]
                   /\ p \notin partial'
       /\ error # "none" =>
             /\ dirs' = dirs
             /\ files' = files
             /\ partial' = partial
             /\ pc' = "done"
             /\ out' = Append(out, errorBanner)]_vars

C9_Witness ==
    /\ pc = "done"
    /\ error = "EACCES"
    /\ <<"src", "store">> \in dirs
    /\ <<"src", "utils">> \notin dirs
    /\ files = << >>
    /\ errorBanner \in Range(out)

\* C10: the three generated counters agree: each starts at 0 and after any
\* sequence of increment and decrement calls holds the number of increments
\* minus the number of decrements, below zero included.
C10_CountersEquivalent ==
    /\ slice.value = incs - decs
    /\ store.value = incs - decs
    /\ ctxValue = incs - decs
    /\ DOMAIN store = {"value"}

C10_Witness ==
    /\ incs = 2
    /\ decs = 5
    /\ slice.value = -3
    /\ store.value = -3
    /\ ctxValue = -3


\* The store behind the helper that was called last.
StoreOf(backend) == IF backend = "AsyncStorage" THEN asyncStorage ELSE mmkv

\* C11: no operation of the generated storage helpers, on either backend,
\* hands a failure of the underlying store to its caller: when the store call
\* fails, getItem returns null, and setItem, deleteItem and clearAll return
\* normally with the store as it was.
C11_StorageFailuresSwallowed ==
    /\ call.threw = FALSE
    /\ call.failed =>
          /\ call.op = "getItem" => call.returned = "null"
          /\ call.op # "getItem" => call.returned = "void"
          /\ StoreOf(call.backend) = call.before

C11_Witness ==
    /\ call.backend = "MMKV"
    /\ call.op = "getItem"
    /\ call.failed
    /\ call.returned = "null"
    /\ "token" \in DOMAIN mmkv
    /\ "theme" \in DOMAIN asyncStorage


\* resetNavigationStack was the last call, with a list of at least one route.
ResetCalledWithRoutes ==
    /\ navCall.op = "resetNavigationStack"
    /\ Len(navCall.routes) > 0

\* C12 as stated: every call of resetNavigationStack with a list of n > 0
\* routes makes that list the navigation stack and n - 1 the active index.
C12_ResetOnEveryCall ==
    ResetCalledWithRoutes =>
        /\ navState.routes = navCall.routes
        /\ navState.index = Len(navCall.routes) - 1

\* C12 amended: a call of resetNavigationStack with a list of n > 0 routes
\* made while navigationRef.isReady() makes that list the navigation stack and
\* n - 1 the active index; a call made while it is not ready logs
\* 'Navigation is not ready' and leaves the navigation state as it was.
C12_ResetWhenReady ==
    ResetCalledWithRoutes =>
        /\ navCall.ready =>
              /\ navState.routes = navCall.routes
              /\ navState.index = Len(navCall.routes) - 1
              /\ navCall.logged = ""
        /\ ~navCall.ready =>
              /\ navState = navCall.before
              /\ navCall.logged = "Navigation is not ready"

C12_Witness ==
    /\ ResetCalledWithRoutes
    /\ navCall.ready
    /\ Len(navCall.routes) = 3
    /\ navState.index = 2
    /\ navCall.before.routes # navCall.routes


\* The file the next statement of scaffold() writes, if it is a write.
FilesOfGenerator ==
    IF pc = "setupBottomNavigation" THEN bottomNavFiles
    ELSE IF pc = "setupStorage" THEN storageFiles(config.storageType)
    ELSE IF pc = "setupNavigation" THEN navigationFiles
    ELSE IF pc = "setupStateManagement" THEN stateManagementFiles(config.stateManagement)
    ELSE IF pc = "createUtilityFiles" THEN utilFiles
    ELSE << >>
AboutToWrite ==
    IF pc = "createTsConfig" THEN {tsConfigPath}
    ELSE IF phase = "write" /\ FilesOfGenerator # << >> THEN {FilesOfGenerator[i].path}
    ELSE {}

\* C13: in every run and for every configuration, when a file is about to be
\* written its parent directory exists under the root, so no write fails for
\* want of it and every file there lies in an existing directory; this holds
\* for src/navigation/BottomTabNavigator.tsx and for tsconfig.json too.
C13_ParentExistsBeforeWrite ==
    /\ \A p \in AboutToWrite : Parent(p) \in dirs
    /\ \A p \in DOMAIN files : Parent(p) \in dirs
    /\ error # "ENOENT"

C13_Witness ==
    /\ pc = "setupBottomNavigation"
    /\ phase = "write"
    /\ AboutToWrite = {<<"src", "navigation", "BottomTabNavigator.tsx">>}
    /\ ~config.navigationSetup
    /\ fs0 = emptyFs
    /\ navigationPath \in dirs

----------------------------------------------------------------------------
\* The paths generator g writes files to under configuration c.
WrittenPaths(g, c) ==
    {GeneratorCalls(g, c)[j].path :
        j \in {k \in 1..Len(GeneratorCalls(g, c)) : GeneratorCalls(g, c)[k].op = "write"}}

\* C14: the conditional generators and the fixed-output generators write to
\* pairwise disjoint file paths, and
\* a run that succeeds on an empty root leaves the same directories and files
\* whatever the interleaving of the generators' filesystem calls: the ones
\* their calls leave when made in the order of scaffold().
C14_OrderInsensitive ==
    /\ \A g, h \in Generators :
          g # h => WrittenPaths(g, config) \cap WrittenPaths(h, config) = {}
    /\ \A g \in Generators : WrittenPaths(g, config) \cap FixedFiles = {}
    /\ \A k \in 1..Len(utilFiles) : utilFiles[k].path # tsConfigPath
    /\ (pc = "done" /\ error = "none" /\ fs0 = emptyFs)
          => Fs = RunCalls(emptyFs, ScaffoldCalls(config))

\* A run in which all four generators ran interleaved has succeeded.
C14_Witness ==
    /\ pc = "done"
    /\ error = "none"
    /\ fs0 = emptyFs
    /\ \A g \in Generators : at[g] > 0 /\ at[g] = Len(GeneratorCalls(g, config))

----------------------------------------------------------------------------
bottomTabIconsPath == <<"src", "assets", "icons", "BottomTabIcons">>
bottomTabNavigatorPath == <<"src", "navigation", "BottomTabNavigator.tsx">>
rootNavigatorPath == <<"src", "navigation", "RootNavigator.tsx">>
navigationRefPath == <<"src", "navigation", "NavigationRef.ts">>

\* C15: after a successful run on an empty root, src/assets/icons/BottomTabIcons
\* and src/navigation/BottomTabNavigator.tsx exist if and only if
\* bottomNavigation is true, and src/navigation/RootNavigator.tsx and
\* src/navigation/NavigationRef.ts exist if and only if navigationSetup is
\* true, whatever the other configuration values are.
C15_GatedByOneValue ==
    SucceededOnEmptyRoot =>
        /\ bottomTabIconsPath \in dirs <=> config.bottomNavigation
        /\ bottomTabNavigatorPath \in DOMAIN files <=> config.bottomNavigation
        /\ rootNavigatorPath \in DOMAIN files <=> config.navigationSetup
        /\ navigationRefPath \in DOMAIN files <=> config.navigationSetup

\* A run with bottom navigation accepted and navigation setup declined has
\* succeeded and left the bottom-tab outputs without the navigation ones.
C15_Witness ==
    /\ SucceededOnEmptyRoot
    /\ config.bottomNavigation
    /\ ~config.navigationSetup
    /\ bottomTabIconsPath \in dirs
    /\ bottomTabNavigatorPath \in DOMAIN files
    /\ rootNavigatorPath \notin DOMAIN files
    /\ navigationRefPath \notin DOMAIN files

----------------------------------------------------------------------------
\* The top-level subdirectories of src that exist.
TopLevelSrcDirectories == {d \in dirs : Len(d) = 2 /\ d[1] = "src"}

\* The aliases of the tsconfig.json on disk.
AliasesOnDisk == TsConfigOnDisk.paths

\* The aliases are in one-to-one correspondence with the top-level
\* subdirectories of src that exist after a successful run on an empty root:
\* every alias @x/* points at src/x, which exists, and every top-level
\* subdirectory has exactly one alias.
C16_AliasesOneToOne ==
    SucceededOnEmptyRoot =>
        /\ \A k \in DOMAIN AliasesOnDisk :
              /\ AliasDirectory(AliasesOnDisk, k) = <<"src", aliasName[k]>>
              /\ AliasDirectory(AliasesOnDisk, k) \in dirs
        /\ \A d \in TopLevelSrcDirectories :
              Cardinality({k \in DOMAIN AliasesOnDisk :
                              AliasDirectory(AliasesOnDisk, k) = d}) = 1

\* C16: after a successful run on an empty root every alias @x/* of
\* tsconfig.json points at src/x; src/x exists for every alias but @state/*,
\* whose directory src/state no run creates; and every top-level subdirectory
\* of src that exists has exactly one alias.
C16_AliasesOneToOneButState ==
    SucceededOnEmptyRoot =>
        /\ \A k \in DOMAIN AliasesOnDisk :
              /\ AliasDirectory(AliasesOnDisk, k) = <<"src", aliasName[k]>>
              /\ AliasDirectory(AliasesOnDisk, k) \in dirs <=> k # "@state/*"
        /\ \A d \in TopLevelSrcDirectories :
              Cardinality({k \in DOMAIN AliasesOnDisk :
                              AliasDirectory(AliasesOnDisk, k) = d}) = 1

\* A run has succeeded on an empty root and written the aliases, @state/*
\* among them, and src/state does not exist.
C16_Witness ==
    /\ SucceededOnEmptyRoot
    /\ TsConfigWritten
    /\ "@state/*" \in DOMAIN AliasesOnDisk
    /\ <<"src", "state">> \notin dirs
    /\ Cardinality(TopLevelSrcDirectories) = 14

----------------------------------------------------------------------------
(* Runs on the same root after runs that failed as well.                   *)

\* The program is run again on the same root after a run that ended in the
\* catch block. Of the failed run only what it left on disk is remembered.
InvokeAfterFailure ==
    /\ pc = "done"
    /\ run < MaxRuns
    /\ error # "none"
    /\ pc' = "scaffold"
    /\ i' = 1
    /\ phase' = "mkdirp"
    /\ config' = defaultThisConfig
    /\ pending' = {}
    /\ issued' = << >>
    /\ answered' = {}
    /\ out' = << >>
    /\ error' = "none"
    /\ promise' = "pending"
    /\ run' = run + 1
    /\ fs0' = Fs
    /\ prev' = [ended |-> TRUE, ok |-> FALSE, config |-> defaultThisConfig, fs |-> Fs]
    /\ UNCHANGED <<dirs, files, partial>>
    /\ UNCHANGED <<generatedVars, at>>

RerunNext ==
    \/ Next
    \/ InvokeAfterFailure

RerunSpec == Init /\ [][RerunNext]_vars

----------------------------------------------------------------------------
\* C17: no step of any run deletes or renames anything: in every step the
\* directories and the files that exist still exist afterwards, so that
\* everything an earlier run left on disk is there throughout a later run,
\* whatever the later run's answers.
C17_NothingDeleted ==
    [][/\ dirs \subseteq dirs'
       /\ DOMAIN files \subseteq DOMAIN files'
       /\ prev'.ended => /\ prev'.fs.dirs \subseteq dirs'
                         /\ DOMAIN prev'.fs.files \subseteq DOMAIN files']_vars

\* A run choosing Async Storage was followed by a run choosing React Native
\* MMKV, which has succeeded: both storage files exist.
C17_Witness ==
    /\ run = 2
    /\ pc = "done"
    /\ error = "none"
    /\ prev.ended
    /\ prev.config.storageType = "Async Storage"
    /\ config.storageType = "React Native MMKV"
    /\ asyncStoragePath \in DOMAIN files
    /\ mmkvStoragePath \in DOMAIN files
    /\ asyncStoragePath \notin {storageFiles(config.storageType)[k].path :
                                   k \in 1..Len(storageFiles(config.storageType))}

====
